---- MODULE Spec2Model ----
(***************************************************************************)
(* httpcopy: the scan cycle process() of src/httpcopy.py, the capture tool *)
(* that fills the working directory, and the replay threads forward().     *)
(*                                                                         *)
(* File names, first lines and the URL prefix are sequences of one-char    *)
(* strings, so that glob matching, startswith/endswith, split/format and   *)
(* the two regular expressions are computed as the code computes them.     *)
(***************************************************************************)
EXTENDS Naturals, Sequences, FiniteSets, TLC

-----------------------------------------------------------------------------
(* Text helpers *)

Upper == {"A", "B", "C", "D", "E", "F", "G", "H", "I", "J", "K", "L", "M",
          "N", "O", "P", "Q", "R", "S", "T", "U", "V", "W", "X", "Y", "Z"}

DigitChars == <<"0", "1", "2", "3", "4", "5", "6", "7", "8", "9">>

Digits == {DigitChars[i] : i \in 1..10}

\* str.startswith / str.endswith
StartsWith(s, p) == Len(p) <= Len(s) /\ SubSeq(s, 1, Len(p)) = p

EndsWith(s, p) == Len(p) <= Len(s) /\ SubSeq(s, Len(s) - Len(p) + 1, Len(s)) = p

\* index of the first occurrence of character c in s at or after position i,
\* Len(s) + 1 when there is none
RECURSIVE Find(_, _, _)
Find(s, c, i) == IF i > Len(s) THEN Len(s) + 1
                 ELSE IF s[i] = c THEN i ELSE Find(s, c, i + 1)

\* str.split(c): the segments between the occurrences of c
RECURSIVE Split(_, _)
Split(s, c) == LET k == Find(s, c, 1)
               IN IF k > Len(s) THEN <<s>>
                  ELSE <<SubSeq(s, 1, k - 1)>> \o Split(SubSeq(s, k + 1, Len(s)), c)

\* decimal digits of n, most significant first
RECURSIVE Decimal(_)
Decimal(n) == IF n < 10 THEN <<DigitChars[n + 1]>>
              ELSE Decimal(n \div 10) \o <<DigitChars[(n % 10) + 1]>>

\* '{:0wd}'.format(n): zero-padded to width w, wider when n needs it
RECURSIVE ZeroPad(_, _)
ZeroPad(d, w) == IF Len(d) >= w THEN d ELSE ZeroPad(<<"0">> \o d, w)

FormatInt(n, w) == ZeroPad(Decimal(n), w)

-----------------------------------------------------------------------------
(* Configuration (parse_args, httpcopy) *)

\* format_hostport(host, port); host is the list map(int, host.split('.'))
format_hostport(host, port) ==
    FormatInt(host[1], 3) \o <<".">> \o FormatInt(host[2], 3) \o <<".">> \o
    FormatInt(host[3], 3) \o <<".">> \o FormatInt(host[4], 3) \o <<".">> \o
    FormatInt(port, 5)

\* config.listen after parse_hostport: -l 192.168.1.132:80
config_listen == <<(<<192, 168, 1, 132>>), 80>>

listen_server == format_hostport(config_listen[1], config_listen[2])

\* the values of -u/--url-prefix the model runs with: none, and /api/
UrlPrefixes == {<< >>, <<"/", "a", "p", "i", "/">>}

\* the values of -i/--interval: 0 (run once) and 1
Intervals == {0, 1}

-----------------------------------------------------------------------------
(* File names in the working directory *)

Client1 == format_hostport(<<192, 168, 1, 104>>, 12345)

Dash == <<"-">>

\* key -> file name
NameText(k) ==
    CASE k = "SC" -> listen_server \o Dash \o Client1
      [] k = "CS" -> Client1 \o Dash \o listen_server
      [] k = "SS" -> listen_server \o Dash \o listen_server
      [] k = "XY" -> format_hostport(<<10, 0, 0, 1>>, 80) \o Dash \o
                     format_hostport(<<10, 0, 0, 2>>, 54321)
      \* a '-' where the pattern has '?'
      [] k = "WD" -> listen_server \o Dash \o
                     <<"1", "-", "2", ".", "1", "6", "8", ".", "0", "0", "1", ".",
                       "1", "0", "4", ".", "1", "2", "3", "4", "5">>
      \* a digit missing in the first port
      [] k = "BAD" -> <<"1", "9", "2", ".", "1", "6", "8", ".", "0", "0", "1", ".",
                        "1", "3", "2", ".", "0", "0", "8", "0">> \o Dash \o Client1

NAMES == {"SC", "CS", "SS", "XY", "WD", "BAD"}

FileName == [k \in NAMES |-> NameText(k)]

\* the pattern of glob.glob in process()
GlobPattern ==
    <<"?", "?", "?", ".", "?", "?", "?", ".", "?", "?", "?", ".", "?", "?", "?",
      ".", "?", "?", "?", "?", "?", "-", "?", "?", "?", ".", "?", "?", "?", ".",
      "?", "?", "?", ".", "?", "?", "?", ".", "?", "?", "?", "?", "?">>

\* glob/fnmatch with only '?' wildcards; a leading '.' is never matched by '?'
GlobMatch(pat, s) ==
    /\ Len(s) = Len(pat)
    /\ \A i \in 1..Len(pat) : pat[i] = "?" \/ pat[i] = s[i]
    /\ (Len(s) > 0 /\ pat[1] = "?") => s[1] # "."

\* '{1}-{0}'.format(*fn.split('-'))
PeerName(fn) == LET parts == Split(fn, "-")
                IN parts[2] \o Dash \o parts[1]

\* peer_fn for every file name of the model
peer_fn_of == [k \in NAMES |-> PeerName(FileName[k])]

\* the key whose file name is the text t, "" when no name of the model has it
KeyOf(t) == IF \E k \in NAMES : FileName[k] = t
            THEN CHOOSE k \in NAMES : FileName[k] = t
            ELSE ""

-----------------------------------------------------------------------------
(* First lines and the two regular expressions *)

\* key -> file content (its first 2048 bytes)
Content(k) ==
    CASE k = "req_api" ->
           <<"G", "E", "T", " ", "/", "a", "p", "i", "/", "x", " ", "H", "T", "T",
             "P", "/", "1", ".", "1", "\r", "\n", "H", "o", "s", "t", ":", "\r", "\n">>
      [] k = "req_health" ->
           <<"G", "E", "T", " ", "/", "h", "e", "a", "l", "t", "h", " ", "H", "T",
             "T", "P", "/", "1", ".", "1", "\r", "\n">>
      [] k = "resp" ->
           <<"H", "T", "T", "P", "/", "1", ".", "1", " ", "2", "0", "0", " ", "O",
             "K", "\r", "\n", "\r", "\n", "o", "k">>
      [] k = "empty" -> << >>
      \* '.' of RE_HTTP_RESP is not escaped: any character passes
      [] k = "resp_x" ->
           <<"H", "T", "T", "P", "/", "1", "x", "0", " ", "4", "0", "4", " ", "\n">>
      \* no space after the status code
      [] k = "resp_short" ->
           <<"H", "T", "T", "P", "/", "1", ".", "1", " ", "2", "0", "0", "\n">>
      \* two spaces: the target is empty
      [] k = "req_2sp" ->
           <<"G", "E", "T", " ", " ", "/", " ", "H", "T", "T", "P", "/", "1", ".",
             "1", "\n">>
      [] k = "req_lower" ->
           <<"g", "e", "t", " ", "/", " ", "H", "T", "T", "P", "/", "1", ".", "1",
             "\n">>
      \* nine upper-case letters
      [] k = "req_long" ->
           <<"O", "P", "T", "I", "O", "N", "S", "X", "X", " ", "/", " ", "H", "T",
             "T", "P", "/", "1", ".", "1", "\n">>
      \* no line end, HTTP/1.0
      [] k = "req_put" ->
           <<"P", "U", "T", " ", "/", "a", "p", "i", "/", " ", "H", "T", "T", "P",
             "/", "1", ".", "0">>
      \* starts like a status line and like a method
      [] k = "http_word" ->
           <<"H", "T", "T", "P", " ", "/", "1", " ", "H", "T", "T", "P", "/", "1",
             ".", "1", " ", "2", "0", "0", " ", "\n">>

AllContents == {"req_api", "req_health", "resp", "empty", "resp_x", "resp_short",
                "req_2sp", "req_lower", "req_long", "req_put", "http_word"}

ReadLimit == 2048

\* open(fn).readline(2048): up to and including the first '\n', at most 2048
ReadLine(text) ==
    LET k == Find(text, "\n", 1)
        n == IF k > Len(text) THEN Len(text) ELSE k
    IN SubSeq(text, 1, IF n > ReadLimit THEN ReadLimit ELSE n)

read_firstline == [k \in AllContents |-> ReadLine(Content(k))]

HttpVer == <<"H", "T", "T", "P", "/", "1">>

\* RE_HTTP_REQ.match(line): ([A-Z]{3,8}) ([^ ]+) (HTTP/1\.[01])
MatchReq(line) ==
    \E m \in 3..8 :
      /\ Len(line) >= m + 1
      /\ \A i \in 1..m : line[i] \in Upper
      /\ line[m + 1] = " "
      /\ \E t \in 1..Len(line) :
           /\ Len(line) >= m + 1 + t + 1 + 8
           /\ \A i \in (m + 2)..(m + 1 + t) : line[i] # " "
           /\ line[m + t + 2] = " "
           /\ SubSeq(line, m + t + 3, m + t + 8) = HttpVer
           /\ line[m + t + 9] = "."
           /\ line[m + t + 10] \in {"0", "1"}

\* RE_HTTP_RESP.match(line): (HTTP/1.[01]) (\d{3}) (.*)
MatchResp(line) ==
    /\ Len(line) >= 13
    /\ SubSeq(line, 1, 6) = HttpVer
    /\ line[7] # "\n"
    /\ line[8] \in {"0", "1"}
    /\ line[9] = " "
    /\ \A i \in 10..12 : line[i] \in Digits
    /\ line[13] = " "

\* request_line.split(' ')[1]
Url(request_line) == Split(request_line, " ")[2]

\* the first lines of the contents of the model, and the two matches and the
\* request target of each
FirstLines == {read_firstline[c] : c \in AllContents}

RE_HTTP_REQ_match == [line \in FirstLines |-> MatchReq(line)]

RE_HTTP_RESP_match == [line \in FirstLines |-> MatchResp(line)]

url_of == [line \in {l \in FirstLines : MatchReq(l)} |-> Url(line)]

-----------------------------------------------------------------------------
(* Bounds *)

\* how many files the capture tool creates in all
MaxFiles == 3

\* how many times the capture tool may create a file of one name
MaxGen == MaxFiles

-----------------------------------------------------------------------------
(* State *)

VARIABLES
    file,                  \* the files: instance -> [dir, role, content, idle]
    config,                \* [url_prefix, interval]
    fwd,                   \* one call of forward(), step by step
    pc,                    \* where the main thread is in httpcopy()/process()
    now_idle,              \* process(): the names with now - mtime > timeout
    all_files,             \* process(): the files glob.glob found
    invalid_server_files,  \* process()
    ready_files,           \* process()
    invalid_oneway_files,  \* process()
    http_files,            \* check_http_files()
    invalid_files,         \* check_http_files()
    invalid_url_files,     \* check_http_files()
    hidx,                  \* process(): position of the loop over http_files
    new_files,             \* process_http_files(): the files now at
                           \* new_request_file and new_response_file
    threads                \* the replay threads started, in start order

vars == <<file, config, fwd, pc, now_idle, all_files, invalid_server_files, ready_files,
          invalid_oneway_files, http_files, invalid_files, invalid_url_files,
          hidx, new_files, threads>>

cycle_vars == <<now_idle, all_files, invalid_server_files, ready_files,
                invalid_oneway_files, http_files, invalid_files, invalid_url_files>>

locals == <<cycle_vars, hidx, new_files>>

\* a file instance: the g-th file the capture tool created under name k.
\* The lists of process() hold names; all_files keeps the instance as well.
Inst == NAMES \X (1..MaxGen)

\* a file is in one directory: "work" is the working directory, "none" a
\* file not created yet, "lost" a file replaced by a rename onto it
Quarantine == {"invalid", "invalid_oneway", "invalid_server", "invalid_url"}

NoFile == [dir |-> "none", role |-> "", content |-> "empty", idle |-> FALSE]

\* the instance named k in the working directory (at most one)
InWork(f, k) == \E g \in 1..MaxGen : f[<<k, g>>].dir = "work"

WorkInst(f, k) == <<k, CHOOSE g \in 1..MaxGen : f[<<k, g>>].dir = "work">>

Created(f) == {i \in Inst : f[i].dir # "none"}

Range(s) == {s[i] : i \in 1..Len(s)}

NamesOf(S) == {i[1] : i \in S}

-----------------------------------------------------------------------------
(* The file system *)

\* a rename that leaves the file in the working directory
Rename_Copy(f, k, d) == f

\* os.rename(fn, os.path.join(data_dir, fn)) on POSIX: the file named k leaves
\* the working directory; a file of the same name already in the directory d
\* is replaced.  (idle is kept for the files of the working directory only.)
Rename(f, k, d) ==
    LET i == WorkInst(f, k)
    IN [j \in Inst |->
          IF j = i THEN [f[j] EXCEPT !.dir = d, !.idle = FALSE]
          ELSE IF j[1] = k /\ f[j].dir = d THEN [f[j] EXCEPT !.dir = "lost"]
          ELSE f[j]]

\* move_files(invalid_files, data_dir), the first n renames of it
RECURSIVE move_files(_, _, _, _)
move_files(f, list, d, n) ==
    IF n = 0 \/ list = << >> THEN f
    ELSE move_files(Rename(f, Head(list), d), Tail(list), d, n - 1)

\* the first n renames of move_files find their file (no FileNotFoundError)
RECURSIVE Movable(_, _, _, _)
Movable(f, list, d, n) ==
    IF n = 0 \/ list = << >> THEN TRUE
    ELSE IF InWork(f, Head(list))
         THEN Movable(Rename(f, Head(list), d), Tail(list), d, n - 1)
         ELSE FALSE

\* glob.glob('???.???.???.???.?????-???.???.???.???.?????') in the working
\* directory
glob(f) == {i \in Inst : f[i].dir = "work" /\ GlobMatch(GlobPattern, FileName[i[1]])}

\* an archival rename that leaves the file where it is
Archive_Skip(f, k, role) == f

\* os.rename(request_file, new_request_file): the new name carries the time
\* of the move and the role, so no earlier file has it
Archive(f, k, role) ==
    [f EXCEPT ![WorkInst(f, k)] =
                 [@ EXCEPT !.dir = "forward", !.role = role, !.idle = FALSE]]

-----------------------------------------------------------------------------
(* process(): the pure parts *)

\* valid_files: the names that start or end with the listen server
valid_files(all) ==
    {k \in all : \/ StartsWith(FileName[k], listen_server)
                 \/ EndsWith(FileName[k], listen_server)}

\* every order glob.glob (or the iteration of a set) may list S in
Orders(S) == {s \in [1..Cardinality(S) -> S] : \A i, j \in DOMAIN s : s[i] = s[j] => i = j}

\* list.remove(x): without the first occurrence of x
RECURSIVE Remove(_, _)
Remove(s, x) == IF s = << >> THEN << >>
                ELSE IF Head(s) = x THEN Tail(s)
                ELSE <<Head(s)>> \o Remove(Tail(s), x)

\* the while loop without the branch that waits for the other direction: a
\* file whose peer is not yet a timeout candidate is taken as one-way
RECURSIVE Pairing_NoDefer(_, _, _, _)
Pairing_NoDefer(timeout_files, all, ready, oneway) ==
    IF timeout_files = << >> THEN <<ready, oneway>>
    ELSE LET fn == Head(timeout_files)
             rest == Tail(timeout_files)
             peer == KeyOf(peer_fn_of[fn])
         IN IF peer \in Range(rest)
            THEN Pairing_NoDefer(Remove(rest, peer), all, Append(ready, <<fn, peer>>), oneway)
            ELSE Pairing_NoDefer(rest, all, ready, Append(oneway, fn))

\* the while loop over timeout_files; all holds the names of all_files; the
\* result is <<ready_files, invalid_oneway_files>>
RECURSIVE Pairing(_, _, _, _)
Pairing(timeout_files, all, ready, oneway) ==
    IF timeout_files = << >> THEN <<ready, oneway>>
    ELSE LET fn == Head(timeout_files)
             rest == Tail(timeout_files)
             peer_fn == peer_fn_of[fn]
             peer == KeyOf(peer_fn)
         IN IF peer \in Range(rest)
            THEN Pairing(Remove(rest, peer), all, Append(ready, <<fn, peer>>), oneway)
            ELSE IF \E k \in all : FileName[k] = peer_fn
            THEN Pairing(rest, all, ready, oneway)
            ELSE Pairing(rest, all, ready, Append(oneway, fn))

\* the first line of the file named k in the working directory
LineOf(f, k) == read_firstline[f[WorkInst(f, k)].content]

\* the url-prefix test of check_http_files
UrlFiltered(prefix, request_line) ==
    prefix # << >> /\ ~StartsWith(url_of[request_line], prefix)

\* check_pair without the else of the url-prefix test: a filtered pair is
\* put on http_files as well
check_pair_no_else(f, prefix, fn, peer_fn, acc) ==
    LET line == LineOf(f, fn)
        peer_line == LineOf(f, peer_fn)
        bad == [acc EXCEPT !.invalid_files = @ \o <<fn, peer_fn>>]
        filter(request_line, request_file, response_file) ==
            [acc EXCEPT !.invalid_url_files =
                            IF UrlFiltered(prefix, request_line)
                            THEN @ \o <<fn, peer_fn>> ELSE @,
                        !.http_files = Append(@, <<request_file, response_file>>)]
    IN IF line = << >> \/ peer_line = << >> THEN bad
       ELSE IF RE_HTTP_REQ_match[line] /\ RE_HTTP_RESP_match[peer_line] THEN filter(line, fn, peer_fn)
       ELSE IF RE_HTTP_REQ_match[peer_line] /\ RE_HTTP_RESP_match[line] THEN filter(peer_line, peer_fn, fn)
       ELSE bad

\* check_http_files(): the body of the loop for one pair; acc is
\* [http_files, invalid_files, invalid_url_files]
check_pair(f, prefix, fn, peer_fn, acc) ==
    LET line == LineOf(f, fn)
        peer_line == LineOf(f, peer_fn)
        bad == [acc EXCEPT !.invalid_files = @ \o <<fn, peer_fn>>]
        filter(request_line, request_file, response_file) ==
            IF UrlFiltered(prefix, request_line)
            THEN [acc EXCEPT !.invalid_url_files = @ \o <<fn, peer_fn>>]
            ELSE [acc EXCEPT !.http_files = Append(@, <<request_file, response_file>>)]
    IN IF line = << >> \/ peer_line = << >> THEN bad
       ELSE IF RE_HTTP_REQ_match[line] /\ RE_HTTP_RESP_match[peer_line] THEN filter(line, fn, peer_fn)
       ELSE IF RE_HTTP_REQ_match[peer_line] /\ RE_HTTP_RESP_match[line] THEN filter(peer_line, peer_fn, fn)
       ELSE bad

\* check_http_files(ready_files) up to its move_files call
RECURSIVE check_http_files(_, _, _, _)
check_http_files(f, prefix, ready, acc) ==
    IF ready = << >> THEN acc
    ELSE check_http_files(f, prefix, Tail(ready),
                          check_pair(f, prefix, Head(ready)[1], Head(ready)[2], acc))

NoLists == [http_files |-> << >>, invalid_files |-> << >>, invalid_url_files |-> << >>]

-----------------------------------------------------------------------------
(* The capture tool and the clock; they are followed while httpcopy runs *)

Running == pc \notin {"exit", "crashed"}

\* the capture tool opens a new file named k with content c
Create(k, c) ==
    /\ Running
    /\ ~InWork(file, k)
    /\ Cardinality(Created(file)) < MaxFiles
    /\ \E g \in 1..MaxGen :
         /\ file[<<k, g>>].dir = "none"
         /\ \A h \in 1..(g - 1) : file[<<k, h>>].dir # "none"
         /\ file' = [file EXCEPT ![<<k, g>>] =
                       [dir |-> "work", role |-> "", content |-> c, idle |-> FALSE]]
    /\ UNCHANGED <<config, fwd, pc, locals, threads>>

\* the capture tool appends to a file: until os.stat has read the mtimes, the
\* file's mtime is now later than the main thread's time.time()
CaptureAppend ==
    \E i \in Inst :
      /\ Running
      /\ file[i].dir = "work"
      /\ file[i].idle
      /\ file' = [file EXCEPT ![i].idle = FALSE]
      /\ now_idle' = IF pc \in {"mv_server", "pair"} THEN now_idle \ {i[1]} ELSE now_idle
      /\ UNCHANGED <<config, fwd, pc, all_files, invalid_server_files, ready_files,
                     invalid_oneway_files, http_files, invalid_files,
                     invalid_url_files, hidx, new_files, threads>>

\* time passes: a file has been left alone for more than config.timeout
Settle ==
    \E i \in Inst :
      /\ Running
      /\ file[i].dir = "work"
      /\ ~file[i].idle
      /\ file' = [file EXCEPT ![i].idle = TRUE]
      /\ UNCHANGED <<config, fwd, pc, locals, threads>>

-----------------------------------------------------------------------------
(* process() and httpcopy(), step by step.  A step of process() that has   *)
(* nothing to do (an empty list to move, no pair to check) changes nothing *)
(* and is passed over: pc goes to the next step that has work.             *)

Stages == <<"mv_server", "pair", "mv_oneway", "check", "mv_url", "mv_invalid", "rn_req">>

HasWork(stage) ==
    CASE stage = "mv_server" -> invalid_server_files # {}
      [] stage = "pair" -> valid_files(NamesOf(all_files)) \cap now_idle # {}
      [] stage = "mv_oneway" -> invalid_oneway_files # << >>
      [] stage = "check" -> ready_files # << >>
      [] stage = "mv_url" -> invalid_url_files # << >>
      [] stage = "mv_invalid" -> invalid_files # << >>
      [] stage = "rn_req" -> http_files # << >>

\* the first stage from the n-th on that has work; "sleep": process() returns
RECURSIVE NextStep(_)
NextStep(n) == IF n > Len(Stages) THEN "sleep"
               ELSE IF HasWork(Stages[n]) THEN Stages[n]
               ELSE NextStep(n + 1)

\* now = time.time(); all_files = glob.glob(...); valid_files;
\* invalid_server_files = set(all_files) - set(valid_files)
Scan ==
    /\ pc = "scan"
    /\ LET all == glob(file)
       IN /\ all_files' = all
          /\ invalid_server_files' = NamesOf(all) \ valid_files(NamesOf(all))
    /\ now_idle' = {k \in NAMES : InWork(file, k) /\ file[WorkInst(file, k)].idle}
    /\ UNCHANGED <<file, config, fwd, ready_files, invalid_oneway_files, http_files,
                   invalid_files, invalid_url_files, hidx, new_files, threads>>
    /\ pc' = NextStep(1)'

\* move_files(invalid_server_files, config.data_dir_invalid_server)
MoveInvalidServer ==
    /\ pc = "mv_server"
    /\ \E order \in Orders(invalid_server_files) :
         /\ Movable(file, order, "invalid_server", Len(order))
         /\ file' = move_files(file, order, "invalid_server", Len(order))
    /\ UNCHANGED <<config, fwd, locals, threads>>
    /\ pc' = NextStep(2)'

\* mtimes, timeout_files and the pairing loop
StatAndPair ==
    /\ pc = "pair"
    /\ \E order \in Orders(valid_files(NamesOf(all_files))) :
         LET timeout_files == SelectSeq(order, LAMBDA k : k \in now_idle)
             r == Pairing(timeout_files, NamesOf(all_files), << >>, << >>)
         IN /\ ready_files' = r[1]
            /\ invalid_oneway_files' = r[2]
    /\ UNCHANGED <<file, config, fwd, now_idle, all_files, invalid_server_files,
                   http_files, invalid_files, invalid_url_files, hidx, new_files,
                   threads>>
    /\ pc' = NextStep(3)'

\* move_files(invalid_oneway_files, config.data_dir_invalid_oneway)
MoveOneway ==
    /\ pc = "mv_oneway"
    /\ Movable(file, invalid_oneway_files, "invalid_oneway", Len(invalid_oneway_files))
    /\ file' = move_files(file, invalid_oneway_files, "invalid_oneway",
                          Len(invalid_oneway_files))
    /\ UNCHANGED <<config, fwd, locals, threads>>
    /\ pc' = NextStep(4)'

\* check_http_files(ready_files): the loop over the pairs
CheckHttpFiles ==
    /\ pc = "check"
    /\ LET r == check_http_files(file, config.url_prefix, ready_files, NoLists)
       IN /\ http_files' = r.http_files
          /\ invalid_files' = r.invalid_files
          /\ invalid_url_files' = r.invalid_url_files
    /\ UNCHANGED <<file, config, fwd, now_idle, all_files, invalid_server_files,
                   ready_files, invalid_oneway_files, hidx, new_files, threads>>
    /\ pc' = NextStep(5)'

\* check_http_files(): move_files(invalid_url_files, config.data_dir_invalid_url)
MoveInvalidUrl ==
    /\ pc = "mv_url"
    /\ Movable(file, invalid_url_files, "invalid_url", Len(invalid_url_files))
    /\ file' = move_files(file, invalid_url_files, "invalid_url", Len(invalid_url_files))
    /\ UNCHANGED <<config, fwd, locals, threads>>
    /\ pc' = NextStep(6)'

\* move_files(invalid_files, config.data_dir_invalid)
MoveInvalid ==
    /\ pc = "mv_invalid"
    /\ Movable(file, invalid_files, "invalid", Len(invalid_files))
    /\ file' = move_files(file, invalid_files, "invalid", Len(invalid_files))
    /\ UNCHANGED <<config, fwd, locals, threads>>
    /\ pc' = NextStep(7)'

\* process_http_files(): os.rename(request_file, new_request_file)
RenameRequest ==
    /\ pc = "rn_req"
    /\ InWork(file, http_files[hidx][1])
    /\ new_files' = <<WorkInst(file, http_files[hidx][1])>>
    /\ file' = Archive(file, http_files[hidx][1], "request")
    /\ pc' = "rn_resp"
    /\ UNCHANGED <<config, fwd, cycle_vars, hidx, threads>>

\* process_http_files(): os.rename(response_file, new_response_file)
RenameResponse ==
    /\ pc = "rn_resp"
    /\ InWork(file, http_files[hidx][2])
    /\ new_files' = Append(new_files, WorkInst(file, http_files[hidx][2]))
    /\ file' = Archive(file, http_files[hidx][2], "response")
    /\ pc' = "start"
    /\ UNCHANGED <<config, fwd, cycle_vars, hidx, threads>>

\* a start of the replay after which the main thread waits for its end
StartThread_Join ==
    /\ pc = "start"
    /\ threads' = Append(threads, [request |-> new_files[1],
                                   response |-> new_files[2],
                                   st |-> "connect"])
    /\ hidx' = hidx + 1
    /\ new_files' = << >>
    /\ pc' = "join"
    /\ UNCHANGED <<file, config, fwd, cycle_vars>>

\* process_http_files(): t = threading.Thread(target=forward, ...); t.start();
\* then the next pair of the loop in process(), or its return
StartThread ==
    /\ pc = "start"
    /\ threads' = Append(threads, [request |-> new_files[1],
                                   response |-> new_files[2],
                                   st |-> "connect"])
    /\ hidx' = hidx + 1
    /\ new_files' = << >>
    /\ pc' = IF hidx < Len(http_files) THEN "rn_req" ELSE "sleep"
    /\ UNCHANGED <<file, config, fwd, cycle_vars>>

\* the renames still to do at pc, as <<list, directory>>
Pending(order) ==
    CASE pc = "mv_server" -> <<order, "invalid_server">>
      [] pc = "mv_oneway" -> <<invalid_oneway_files, "invalid_oneway">>
      [] pc = "mv_url" -> <<invalid_url_files, "invalid_url">>
      [] pc = "mv_invalid" -> <<invalid_files, "invalid">>
      [] pc = "rn_req" -> <<(<<http_files[hidx][1]>>), "forward">>
      [] pc = "rn_resp" -> <<(<<http_files[hidx][2]>>), "forward">>
      [] OTHER -> <<(<< >>), "">>

\* os.rename raises OSError at the (n+1)-th file of the list: nothing
\* catches it in move_files, process_http_files, process or httpcopy, and
\* __main__ catches KeyboardInterrupt only, so the program ends
RenameFails ==
    /\ \E order \in (IF pc = "mv_server" THEN Orders(invalid_server_files) ELSE {<< >>}) :
         LET p == Pending(order)
         IN \E n \in 0..(Len(p[1]) - 1) :
              /\ Movable(file, p[1], p[2], n)
              /\ file' = move_files(file, p[1], p[2], n)
    /\ pc' = "crashed"
    /\ UNCHANGED <<config, fwd, locals, threads>>

\* httpcopy(): process() has returned; time.sleep(config.interval) and again
Sleep ==
    /\ pc = "sleep"
    /\ config.interval # 0
    /\ pc' = "scan"
    /\ now_idle' = {}
    /\ all_files' = {}
    /\ invalid_server_files' = {}
    /\ ready_files' = << >>
    /\ invalid_oneway_files' = << >>
    /\ http_files' = << >>
    /\ invalid_files' = << >>
    /\ invalid_url_files' = << >>
    /\ hidx' = 1
    /\ UNCHANGED <<file, config, fwd, new_files, threads>>

\* httpcopy(): interval 0: break
Return ==
    /\ pc = "sleep"
    /\ config.interval = 0
    /\ pc' = "exit"
    /\ UNCHANGED <<file, config, fwd, locals, threads>>

-----------------------------------------------------------------------------
(* forward(), seen from the scan loop: a daemon thread *)

SetSt(t, st) == threads' = [threads EXCEPT ![t].st = st]

\* sock.connect raises socket.timeout or ConnectionRefusedError: return
ForwardNoConnect ==
    /\ Running
    /\ \E t \in 1..Len(threads) : threads[t].st = "connect" /\ SetSt(t, "done")
    /\ UNCHANGED <<file, config, fwd, pc, locals>>

\* sock.connect returns and the request is sent
ForwardSend ==
    /\ Running
    /\ \E t \in 1..Len(threads) : threads[t].st = "connect" /\ SetSt(t, "recv")
    /\ UNCHANGED <<file, config, fwd, pc, locals>>

\* sock.connect, sock.send or sock.recv raises an error forward() does not
\* catch (OSError, ConnectionResetError, ...): the thread ends
ForwardRaises ==
    /\ Running
    /\ \E t \in 1..Len(threads) :
         threads[t].st \in {"connect", "recv"} /\ SetSt(t, "raised")
    /\ UNCHANGED <<file, config, fwd, pc, locals>>

\* sock.recv times out or returns no data: break
ForwardEnd ==
    /\ Running
    /\ \E t \in 1..Len(threads) : threads[t].st = "recv" /\ SetSt(t, "done")
    /\ UNCHANGED <<file, config, fwd, pc, locals>>

-----------------------------------------------------------------------------
(* forward(request_file, response_file), step by step.  fwd.request is the  *)
(* content of the archived request file, fwd.lines the lines the for loop   *)
(* has still to send, fwd.wire the bytes the socket has accepted and        *)
(* fwd.response the chunks appended to the forward-response file.           *)

\* the longest request file of SpecForward
MaxLen == 3

\* how many chunks the shadow server answers with at most
MaxRecv == 2

Newline == "\n"

RequestBytes == {"G", Newline}

RequestContents == UNION {[1..n -> RequestBytes] : n \in 0..MaxLen}

\* for line in open(request_file, 'rb'): the lines, each with its newline
RECURSIVE FileLines(_)
FileLines(text) ==
    IF text = << >> THEN << >>
    ELSE LET k == Find(text, Newline, 1)
             n == IF k > Len(text) THEN Len(text) ELSE k
         IN <<SubSeq(text, 1, n)>> \o FileLines(SubSeq(text, n + 1, Len(text)))

\* fwd.response holds the first MaxRecv chunks of the forward-response file;
\* of the chunks appended after them fwd.more keeps the parity
NoForward == [st |-> "idle", request |-> << >>, lines |-> << >>,
              wire |-> << >>, response |-> << >>, more |-> 0]

\* a failing connect after which a chunk is written to the response file
SockConnectFails_Writes ==
    /\ fwd.st = "connect"
    /\ fwd' = [fwd EXCEPT !.st = "noconn", !.response = Append(@, "data")]
    /\ UNCHANGED <<file, config, pc, locals, threads>>

\* sock.connect(config.forward) raises socket.timeout or
\* ConnectionRefusedError: return
SockConnectFails ==
    /\ fwd.st = "connect"
    /\ fwd' = [fwd EXCEPT !.st = "noconn"]
    /\ UNCHANGED <<file, config, pc, locals, threads>>

\* sock.connect(config.forward) returns; open(request_file, 'rb')
SockConnect ==
    /\ fwd.st = "connect"
    /\ fwd' = [fwd EXCEPT !.st = "send", !.lines = FileLines(fwd.request)]
    /\ UNCHANGED <<file, config, pc, locals, threads>>

\* sock.send(line): the socket accepts the first n bytes of the line and
\* returns n, which forward() does not look at
SockSend ==
    /\ fwd.st = "send"
    /\ fwd.lines # << >>
    /\ \E n \in 1..Len(Head(fwd.lines)) :
         fwd' = [fwd EXCEPT !.wire = @ \o SubSeq(Head(fwd.lines), 1, n),
                            !.lines = Tail(@)]
    /\ UNCHANGED <<file, config, pc, locals, threads>>

\* sock.send(line) raises (socket.timeout, BrokenPipeError, ...): nothing in
\* forward() catches it and the thread ends
SockSendRaises ==
    /\ fwd.st = "send"
    /\ fwd.lines # << >>
    /\ fwd' = [fwd EXCEPT !.st = "raised"]
    /\ UNCHANGED <<file, config, pc, locals, threads>>

\* the for loop is over: sock.settimeout(FORWARD_DATA_TIMEOUT)
SendLoopEnds ==
    /\ fwd.st = "send"
    /\ fwd.lines = << >>
    /\ fwd' = [fwd EXCEPT !.st = "recv"]
    /\ UNCHANGED <<file, config, pc, locals, threads>>

\* data = sock.recv(1024); open(response_file, 'ab').write(data)
SockRecv ==
    /\ fwd.st = "recv"
    /\ fwd' = IF Len(fwd.response) < MaxRecv
              THEN [fwd EXCEPT !.response = Append(@, "data")]
              ELSE [fwd EXCEPT !.more = 1 - @]
    /\ UNCHANGED <<file, config, pc, locals, threads>>

\* sock.recv raises socket.timeout or returns b'': break
SockRecvEnds ==
    /\ fwd.st = "recv"
    /\ fwd' = [fwd EXCEPT !.st = "done"]
    /\ UNCHANGED <<file, config, pc, locals, threads>>

-----------------------------------------------------------------------------
(* Specification *)

InitMain ==
    /\ file = [i \in Inst |-> NoFile]
    /\ config \in [url_prefix : UrlPrefixes, interval : Intervals]
    /\ pc = "scan"
    /\ now_idle = {}
    /\ all_files = {}
    /\ invalid_server_files = {}
    /\ ready_files = << >>
    /\ invalid_oneway_files = << >>
    /\ http_files = << >>
    /\ invalid_files = << >>
    /\ invalid_url_files = << >>
    /\ hidx = 1
    /\ new_files = << >>
    /\ threads = << >>

Init == InitMain /\ fwd = NoForward

\* the files the capture tool writes in the runs of Spec
\* (the content of a file that is never paired is never read)
SpecFiles == ({"SC", "CS"} \X {"req_api", "req_health", "resp", "empty"})
             \cup ({"XY"} \X {"empty"})

CaptureCreate == \E kc \in SpecFiles : Create(kc[1], kc[2])

Next ==
    \/ CaptureCreate
    \/ CaptureAppend
    \/ Settle
    \/ Scan
    \/ MoveInvalidServer
    \/ StatAndPair
    \/ MoveOneway
    \/ CheckHttpFiles
    \/ MoveInvalidUrl
    \/ MoveInvalid
    \/ RenameRequest
    \/ RenameResponse
    \/ StartThread
    \/ RenameFails
    \/ Sleep
    \/ Return
    \/ ForwardNoConnect
    \/ ForwardSend
    \/ ForwardRaises
    \/ ForwardEnd

Spec == Init /\ [][Next]_vars

-----------------------------------------------------------------------------
(* The poll loop with no failing rename: httpcopy() with interval > 0 never *)
(* returns, and the main thread keeps taking its steps.                     *)

InitLive == Init /\ config.interval # 0

\* the files the capture tool writes in the runs of SpecLive; one of them is
\* named listen_server-listen_server
LiveFiles == ({"SC", "CS"} \X {"req_api", "req_health", "resp"})
             \cup ({"SS"} \X {"resp"}) \cup ({"XY"} \X {"empty"})

LiveCreate == \E kc \in LiveFiles : Create(kc[1], kc[2])

\* the steps of the main thread
MainThread ==
    \/ Scan
    \/ MoveInvalidServer
    \/ StatAndPair
    \/ MoveOneway
    \/ CheckHttpFiles
    \/ MoveInvalidUrl
    \/ MoveInvalid
    \/ RenameRequest
    \/ RenameResponse
    \/ StartThread
    \/ Sleep

\* the steps of the main thread, the return of httpcopy() included
MainStep == MainThread \/ Return

NextLive ==
    \/ LiveCreate
    \/ CaptureAppend
    \/ Settle
    \/ MainThread
    \/ ForwardNoConnect
    \/ ForwardSend
    \/ ForwardRaises
    \/ ForwardEnd

SpecLive == InitLive /\ [][NextLive]_vars /\ WF_vars(MainThread)

-----------------------------------------------------------------------------
(* Spec with a main thread that keeps running: as long as no exception has *)
(* ended it, it takes its next step.                                       *)

SpecLoop == Init /\ [][Next]_vars /\ WF_vars(MainStep)

-----------------------------------------------------------------------------
(* The program on a working directory that also holds files whose names   *)
(* are not the capture tool's: a '-' where a digit belongs, a digit that  *)
(* is missing.                                                            *)

OddFiles == ({"SC", "CS"} \X {"req_health", "resp"})
            \cup ({"XY", "WD", "BAD"} \X {"empty"})

OddCreate == \E kc \in OddFiles : Create(kc[1], kc[2])

NextNames ==
    \/ OddCreate
    \/ CaptureAppend
    \/ Settle
    \/ MainThread
    \/ RenameFails
    \/ Return
    \/ ForwardNoConnect
    \/ ForwardSend
    \/ ForwardRaises
    \/ ForwardEnd

SpecNames == Init /\ [][NextNames]_vars

-----------------------------------------------------------------------------
(* One call of forward() on every request file of up to MaxLen bytes *)

\* the two files process_http_files has archived before it starts the thread
ArchivedPair ==
    [i \in Inst |->
       IF i = <<"CS", 1>>
       THEN [dir |-> "forward", role |-> "request", content |-> "req_api", idle |-> FALSE]
       ELSE IF i = <<"SC", 1>>
       THEN [dir |-> "forward", role |-> "response", content |-> "resp", idle |-> FALSE]
       ELSE NoFile]

InitForward ==
    /\ config \in [url_prefix : UrlPrefixes, interval : Intervals]
    /\ file = ArchivedPair
    /\ pc = "sleep"
    /\ now_idle = {}
    /\ all_files = {}
    /\ invalid_server_files = {}
    /\ ready_files = << >>
    /\ invalid_oneway_files = << >>
    /\ http_files = << >>
    /\ invalid_files = << >>
    /\ invalid_url_files = << >>
    /\ hidx = 1
    /\ new_files = << >>
    /\ threads = << >>
    /\ fwd \in {[NoForward EXCEPT !.st = "connect", !.request = c] :
                  c \in RequestContents}

NextForward ==
    \/ SockConnectFails
    \/ SockConnect
    \/ SockSend
    \/ SockSendRaises
    \/ SendLoopEnds
    \/ SockRecv
    \/ SockRecvEnds

SpecForward == InitForward /\ [][NextForward]_vars

\* the same with a thread that keeps running: while forward() has not ended
\* it takes its next step (which one, the shadow server decides)
SpecForwardLive == InitForward /\ [][NextForward]_vars /\ WF_vars(NextForward)

-----------------------------------------------------------------------------
(* Helpers of the properties *)

\* the names of a list of pairs, in order
RECURSIVE Flat(_)
Flat(pairs) == IF pairs = << >> THEN << >>
               ELSE <<Head(pairs)[1], Head(pairs)[2]>> \o Flat(Tail(pairs))

\* how often x occurs in the list s
Count(s, x) == Cardinality({n \in 1..Len(s) : s[n] = x})

\* the file that glob.glob found under the name k in this cycle
InstOf(k) == CHOOSE i \in all_files : i[1] = k

\* the directories a file ends in
Outcomes == Quarantine \cup {"forward"}

\* process() has returned
CycleReturned == pc \in {"sleep", "exit"}

\* process() has returned, or an exception has ended it
CycleOver == CycleReturned \/ pc = "crashed"

\* the first line of the file i
FirstLine(i) == read_firstline[file[i].content]

\* the file a is a request and the file b a response to it
Ordering(a, b) == RE_HTTP_REQ_match[FirstLine(a)] /\ RE_HTTP_RESP_match[FirstLine(b)]

\* exactly one of the two orderings of the pair holds
ExactlyOne(a, b) == Ordering(a, b) # Ordering(b, a)

\* the request line of a pair with exactly one ordering
RequestLine(a, b) == IF Ordering(a, b) THEN FirstLine(a) ELSE FirstLine(b)

\* a replay thread has been started for the files a and b
Forwarded(a, b) ==
    \E t \in 1..Len(threads) : {threads[t].request, threads[t].response} = {a, b}

\* the pairs of ready_files, as files
ReadyPairs == {<<InstOf(ready_files[n][1]), InstOf(ready_files[n][2])>> :
                 n \in 1..Len(ready_files)}

-----------------------------------------------------------------------------
(* C1 *)

\* in how many of the lists of the current cycle the name k stands
Listed(k) == (IF k \in invalid_server_files THEN 1 ELSE 0)
             + Count(invalid_oneway_files, k) + Count(invalid_files, k)
             + Count(invalid_url_files, k) + Count(Flat(http_files), k)

C1_ListsDisjoint == \A k \in NAMES : Listed(k) <= 1

C1_OutcomeKept ==
    \A i \in Inst : file[i].dir \in Outcomes => file'[i].dir \in {file[i].dir, "lost"}

\* C1: over any sequence of scan cycles a capture file receives at most one
\* outcome: once it is in forward/ or in a quarantine directory it is never
\* moved to another one, and within one cycle no file name stands in more
\* than one of invalid_server_files, invalid_oneway_files, invalid_files,
\* invalid_url_files and http_files, nor twice in one of them.
C1_AtMostOneOutcome == []C1_ListsDisjoint /\ [][C1_OutcomeKept]_vars

\* a cycle that has quarantined one file and forwarded a pair has returned
C1_Witness ==
    /\ pc = "sleep"
    /\ invalid_server_files # {}
    /\ http_files # << >>
    /\ \E i, j \in Inst : file[i].dir = "invalid_server" /\ file[j].dir = "forward"

-----------------------------------------------------------------------------
(* C2 *)

\* C2: a move into a quarantine directory never discards the content that
\* is already stored there: no quarantined file is ever lost.
C2_NoDataLost == \A i \in Inst : file[i].dir # "lost"

-----------------------------------------------------------------------------
(* C3 *)

\* C3: a failing rename does not abort the scan cycle or the poll loop: the
\* main thread is never ended by the OSError of os.rename.
C3_RenameFailureSurvived == pc # "crashed"

-----------------------------------------------------------------------------
(* C4 *)

C4_Outcome(p) ==
    IF ExactlyOne(p[1], p[2])
    THEN Forwarded(p[1], p[2])
    ELSE /\ file[p[1]].dir = "invalid"
         /\ file[p[2]].dir = "invalid"
         /\ ~Forwarded(p[1], p[2])

\* C4: with no url prefix configured, a ready pair of a scan cycle is handed
\* to process_http_files (a replay is started for it) if and only if exactly
\* one of the two orderings (request line, status line) holds of its first
\* lines; otherwise both files are in invalid/ and no replay is started.
C4_ForwardedIffExactlyOne ==
    (config.url_prefix = << >> /\ CycleOver) => \A p \in ReadyPairs : C4_Outcome(p)

\* the same of the cycles that process() runs to its return
C4_WhenCycleReturns ==
    (config.url_prefix = << >> /\ CycleReturned) => \A p \in ReadyPairs : C4_Outcome(p)

-----------------------------------------------------------------------------
(* C5 *)

\* the file i of the catalog is valid, was a timeout candidate of this cycle
\* and no file of the catalog has its peer name
OnewayStraggler(i) ==
    /\ i \in all_files
    /\ i[1] \in valid_files(NamesOf(all_files))
    /\ i[1] \in now_idle
    /\ ~\E k \in NamesOf(all_files) : FileName[k] = peer_fn_of[i[1]]

C5_Outcome(i) ==
    /\ file[i].dir = "invalid_oneway"
    /\ i[1] \notin Range(Flat(ready_files))
    /\ \A j \in Inst : ~Forwarded(i, j)

\* C5: a valid file that is a timeout candidate of a scan cycle and whose
\* peer does not exist is in invalid_oneway/ at the end of that cycle; it is
\* in no ready pair and is not forwarded.
C5_OnewayQuarantined ==
    CycleOver => \A i \in Inst : OnewayStraggler(i) => C5_Outcome(i)

\* the same of the cycles that process() runs to its return
C5_WhenCycleReturns ==
    CycleReturned => \A i \in Inst : OnewayStraggler(i) => C5_Outcome(i)

-----------------------------------------------------------------------------
(* C8 *)

\* the pair p is classified (exactly one ordering holds) and the target of
\* its request line does not start with the configured prefix
FilteredOut(p) ==
    /\ config.url_prefix # << >>
    /\ ExactlyOne(p[1], p[2])
    /\ ~StartsWith(url_of[RequestLine(p[1], p[2])], config.url_prefix)

C8_Outcome(p) ==
    /\ file[p[1]].dir = "invalid_url"
    /\ file[p[2]].dir = "invalid_url"
    /\ ~Forwarded(p[1], p[2])

\* with an empty prefix nothing is ever in invalid_url/
C8_EmptyPrefix ==
    config.url_prefix = << >> => \A i \in Inst : file[i].dir # "invalid_url"

\* C8: with a non-empty url_prefix, a ready pair that is classified and whose
\* request target does not start with the prefix has both files in
\* invalid_url/ at the end of the cycle and no replay is started for it; with
\* an empty prefix no file is ever moved to invalid_url/.
C8_UrlPrefixFilter ==
    /\ CycleOver => \A p \in ReadyPairs : FilteredOut(p) => C8_Outcome(p)
    /\ C8_EmptyPrefix

\* the same of the cycles that process() runs to its return
C8_WhenCycleReturns ==
    /\ CycleReturned => \A p \in ReadyPairs : FilteredOut(p) => C8_Outcome(p)
    /\ C8_EmptyPrefix

-----------------------------------------------------------------------------
(* C6 *)

\* the files of the replay thread t
ThreadFiles(t) == {threads[t].request, threads[t].response}

\* both files of every started replay thread are archived in forward/
C6_ClaimedBeforeStart ==
    \A t \in 1..Len(threads) :
        /\ file[threads[t].request].dir = "forward"
        /\ file[threads[t].request].role = "request"
        /\ file[threads[t].response].dir = "forward"
        /\ file[threads[t].response].role = "response"

\* no file belongs to two replay threads
C6_OneReplayPerPair ==
    \A t, u \in 1..Len(threads) :
        t # u => ThreadFiles(t) \cap ThreadFiles(u) = {}

\* the glob of a scan cycle finds no file of a started replay thread
C6_ScanStep ==
    pc = "scan" => \A t \in 1..Len(threads) : ThreadFiles(t) \cap all_files' = {}

\* C6: both archival renames of process_http_files are done when the replay
\* thread of the pair is started, so no capture file is given to two replay
\* threads, and the catalog of a later scan cycle holds no file of a started
\* replay (only files the capture tool has created anew under that name).
C6_ClaimBeforeReplay ==
    [](C6_ClaimedBeforeStart /\ C6_OneReplayPerPair) /\ [][C6_ScanStep]_vars

\* a replay was started for a pair, the capture tool has created a file of
\* the request's name anew and a later scan has it in its catalog
C6_Witness ==
    \E t \in 1..Len(threads) :
        \E i \in all_files :
            /\ i[1] = threads[t].request[1]
            /\ i # threads[t].request
            /\ file[threads[t].request].dir = "forward"

-----------------------------------------------------------------------------
(* C9 *)

\* the files of the catalog that the current cycle has put on one of its
\* lists: the ones it moves to a quarantine directory or archives
Handled == {i \in all_files : Listed(i[1]) > 0}

\* when process() has returned, the glob of the working directory finds no
\* file that this run has handled
C9_AbsentFromNextCatalog == CycleReturned => glob(file) \cap Handled = {}

\* a file leaves the working directory only in a cycle that has it in its
\* catalog
C9_MovedFromCatalog ==
    \A i \in Inst : (file[i].dir = "work" /\ file'[i].dir # "work") => i \in all_files

\* C9: a second run of process() moves no file and starts no replay that the
\* first run moved or started: every file a cycle has quarantined or claimed
\* is out of the working directory when the cycle returns, so the glob of
\* the next cycle does not find it, and a cycle moves files of its own
\* catalog only.
C9_Idempotent == []C9_AbsentFromNextCatalog /\ [][C9_MovedFromCatalog]_vars

\* a cycle that has handled files has returned, after an earlier cycle that
\* handled other files, and a file is left in the working directory
C9_Witness ==
    /\ CycleReturned
    /\ Handled # {}
    /\ glob(file) # {}
    /\ \E i \in Inst \ all_files : file[i].dir \in Outcomes

-----------------------------------------------------------------------------
(* C7 *)

\* the names that process() takes as valid
ValidNames == valid_files(NAMES)

\* the names of NAMES whose text is the peer name of k
PeersOf == [k \in NAMES |-> {j \in NAMES : FileName[j] = peer_fn_of[k]}]

\* the file named k is in the working directory and k is a valid name; the
\* file is left alone for longer than the timeout, and so is its peer if
\* there is one
Stuck(k) ==
    /\ InWork(file, k)
    /\ k \in ValidNames
    /\ file[WorkInst(file, k)].idle
    /\ \A j \in PeersOf[k] : InWork(file, j) => file[WorkInst(file, j)].idle

\* C7: with interval > 0 and no failing rename, no valid file stays in the
\* working directory forever once it and its peer are no longer modified:
\* it is eventually in forward/ or in a quarantine directory.
C7_EventuallyResolved == \A k \in NAMES : []<>~Stuck(k)

\* the names whose peer name is another name
TwoWayNames == {k \in NAMES : k \notin PeersOf[k]}

\* the same of the files whose peer name is not their own name
C7_ExceptOwnPeer == \A k \in TwoWayNames : []<>~Stuck(k)

-----------------------------------------------------------------------------
(* C10 *)

\* the for loop of forward() is over: every line was given to sock.send
SendingOver == fwd.st \in {"recv", "done"}

\* C10: when forward() has sent the request, the bytes delivered to the
\* shadow connection are exactly the bytes of the archived request file, in
\* order, whatever number of bytes each sock.send accepted.
C10_RequestSentVerbatim == SendingOver => fwd.wire = fwd.request

\* the same when no sock.send has dropped a byte
C10_WhenNothingDropped ==
    (SendingOver /\ Len(fwd.wire) = Len(fwd.request)) => fwd.wire = fwd.request

-----------------------------------------------------------------------------
(* C11 *)

\* after a failed connect nothing was sent, nothing was written to the
\* forward-response file and the two archived files are as they were
C11_NothingDone ==
    fwd.st = "noconn" =>
        /\ fwd.wire = << >>
        /\ fwd.response = << >>
        /\ file = ArchivedPair

\* after a failed connect forward() takes no further step: no retry
C11_NoRetry == fwd.st = "noconn" => fwd' = fwd

\* C11: when sock.connect times out or is refused, forward() returns: it
\* does not retry, sends nothing, writes nothing to the -forward-response
\* file, and the archived -request and -response files stay unchanged in
\* forward/.
C11_ConnectFailureAborts == []C11_NothingDone /\ [][C11_NoRetry]_vars

\* the connect of a replay with a non-empty request file has failed
C11_Witness == fwd.st = "noconn" /\ fwd.request # << >>

-----------------------------------------------------------------------------
(* C12 *)

\* while httpcopy() has not ended, its next step is enabled, whatever the
\* replay threads are doing
C12_MainEnabled == Running => ENABLED MainStep

\* a step of a replay thread changes that thread only
C12_ThreadStep ==
    threads' # threads /\ Len(threads') = Len(threads) =>
        /\ UNCHANGED <<file, config, pc, locals>>
        /\ \E t \in 1..Len(threads) :
             \A u \in 1..Len(threads) : u # t => threads'[u] = threads[u]

-----------------------------------------------------------------------------
(* C13 *)

\* the text s has the form DDD.DDD.DDD.DDD.DDDDD-DDD.DDD.DDD.DDD.DDDDD
Conforms(s) ==
    /\ Len(s) = Len(GlobPattern)
    /\ \A n \in 1..Len(GlobPattern) :
         IF GlobPattern[n] = "?" THEN s[n] \in Digits ELSE s[n] = GlobPattern[n]

ConformingNames == {k \in NAMES : Conforms(FileName[k])}

GlobNames == {k \in NAMES : GlobMatch(GlobPattern, FileName[k])}

\* the file i is on no list of the cycle and has never left the working
\* directory
Untouched(i) ==
    /\ file[i].dir \in {"none", "work"}
    /\ i \notin all_files
    /\ Listed(i[1]) = 0
    /\ i[1] \notin Range(Flat(ready_files))

\* C13: a file whose name is not of the form
\* DDD.DDD.DDD.DDD.DDDDD-DDD.DDD.DDD.DDD.DDDDD (D a decimal digit) is in no
\* list of any cycle and is never moved: it stays in the working directory.
C13_MalformedUntouched ==
    \A i \in Inst : i[1] \notin ConformingNames => Untouched(i)

\* the same of the files whose names the glob pattern of process() does not
\* match
C13_UnmatchedUntouched ==
    \A i \in Inst : i[1] \notin GlobNames => Untouched(i)

-----------------------------------------------------------------------------
(* C14 *)

\* B-A for the name A-B, A the text before the first '-' and B the text
\* after it
Swapped(fn) ==
    LET d == Find(fn, "-", 1)
    IN SubSeq(fn, d + 1, Len(fn)) \o Dash \o SubSeq(fn, 1, d - 1)

\* the names of the model the catalog accepts whose derived peer is B-A and
\* whose peer's peer is the name itself
PeerSound == {k \in GlobNames :
                /\ peer_fn_of[k] = Swapped(FileName[k])
                /\ PeerName(peer_fn_of[k]) = FileName[k]}

\* C14: for every file name A-B in the catalog of a cycle the peer name that
\* process() derives is B-A, and the peer of the peer is the name again.
C14_PeerInvolution == \A i \in all_files : i[1] \in PeerSound

\* the same of the names of the form DDD.DDD.DDD.DDD.DDDDD-DDD.DDD.DDD.DDD.DDDDD
C14_ConformingPeers ==
    \A i \in all_files : i[1] \in ConformingNames => i[1] \in PeerSound

-----------------------------------------------------------------------------
(* C15 *)

\* with interval 0 no second cycle is started
C15_NoSecondCycle == config.interval = 0 => ~(pc = "sleep" /\ pc' = "scan")

\* httpcopy() returns only with interval 0, and only from the end of a cycle
C15_ReturnStep == (pc # "exit" /\ pc' = "exit") => (config.interval = 0 /\ pc = "sleep")

C15_Steps == [][C15_NoSecondCycle /\ C15_ReturnStep]_vars

C15_Live ==
    /\ config.interval = 0 => <>(pc = "exit")
    /\ config.interval # 0 => []<>(pc = "scan")

\* C15: with interval 0 httpcopy() runs one scan cycle and returns; with
\* another interval it never returns and starts a further scan cycle after
\* every sleep.
C15_OnceOrForever == C15_Steps /\ C15_Live

\* the same of the runs in which no rename raises
C15_WhenNoRenameFails == [](pc # "crashed") => C15_Live

-----------------------------------------------------------------------------
(* C16 *)

\* the timeout candidates of the cycle: timeout_files before the while loop
Candidates == valid_files(NamesOf(all_files)) \cap now_idle

\* the while loop over timeout_files of this cycle has run to its end
PairingDone == pc \notin {"scan", "mv_server", "pair", "crashed"}

\* the pair of k and its peer is in ready_files, in one of the two orders
Emitted(k) ==
    \E n \in 1..Len(ready_files) :
        \/ ready_files[n][1] = k /\ FileName[ready_files[n][2]] = peer_fn_of[k]
        \/ ready_files[n][2] = k /\ FileName[ready_files[n][1]] = peer_fn_of[k]

\* k and its peer are both timeout candidates
BothCandidates(k) ==
    k \in Candidates /\ \E j \in Candidates : FileName[j] = peer_fn_of[k]

\* no name is handled twice by the pairing
HandledOnce ==
    \A k \in NAMES : Count(Flat(ready_files) \o invalid_oneway_files, k) <= 1

\* C16: in a scan cycle the pair (f, peer(f)) is emitted if and only if f and
\* peer(f) are both timeout candidates, and every file name is handled at
\* most once: it is in at most one ready pair, once, and not in a ready pair
\* and in the one-way list.
C16_PairedIffBothCandidates ==
    PairingDone =>
        /\ \A k \in NamesOf(all_files) : Emitted(k) <=> BothCandidates(k)
        /\ HandledOnce

\* the same of the names whose peer name is another name
C16_TwoWayPairs ==
    PairingDone =>
        /\ \A k \in NamesOf(all_files) \cap TwoWayNames : Emitted(k) <=> BothCandidates(k)
        /\ HandledOnce

-----------------------------------------------------------------------------
(* C17 *)

\* the names of the cycle's valid files that are not timeout candidates and
\* are the peer of k
WaitingPeers(k) ==
    {j \in valid_files(NamesOf(all_files)) \ now_idle : FileName[j] = peer_fn_of[k]}

\* k is a timeout candidate whose peer is among the cycle's valid files and
\* is not a timeout candidate
Deferred(k) == k \in Candidates /\ WaitingPeers(k) # {}

\* the file named k of this cycle's catalog is where it was and on no list
LeftAlone(k) ==
    /\ file[InstOf(k)].dir = "work"
    /\ Listed(k) = 0
    /\ k \notin Range(Flat(ready_files))
    /\ \A t \in 1..Len(threads) : InstOf(k) \notin ThreadFiles(t)
    /\ InstOf(k) \in glob(file)

\* C17: a timeout candidate whose peer is among the cycle's valid files but
\* is not a timeout candidate is left untouched in that cycle, and so is the
\* peer: neither is renamed, quarantined, paired or forwarded; both are still
\* in the working directory, where the glob of the next cycle finds them.
C17_DeferredUntouched ==
    \A k \in NAMES :
        Deferred(k) => LeftAlone(k) /\ \A j \in WaitingPeers(k) : LeftAlone(j)

\* a cycle that has moved a file and deferred another has returned
C17_Witness ==
    /\ pc = "sleep"
    /\ Handled # {}
    /\ \E k \in NAMES : Deferred(k)

-----------------------------------------------------------------------------
(* C18 *)

\* the names the pattern matches of which the source endpoint (the text
\* before the '-' of the pattern) or the destination endpoint (the text after
\* it) is the formatted listen address and port
ListenNames ==
    LET d == Find(GlobPattern, "-", 1)
    IN {k \in GlobNames : \/ SubSeq(FileName[k], 1, d - 1) = listen_server
                          \/ SubSeq(FileName[k], d + 1, Len(FileName[k])) = listen_server}

\* the file i of the catalog is in invalid_server/ and was never paired,
\* classified or forwarded
C18_Outcome(i) ==
    /\ file[i].dir = "invalid_server"
    /\ i[1] \in invalid_server_files
    /\ i[1] \notin Range(Flat(ready_files)) \cup Range(invalid_oneway_files)
    /\ i[1] \notin Range(Flat(http_files)) \cup Range(invalid_files)
                   \cup Range(invalid_url_files)
    /\ \A t \in 1..Len(threads) : i \notin ThreadFiles(t)

C18_Classified ==
    \A i \in all_files :
        /\ i[1] \in valid_files(NamesOf(all_files)) <=> i[1] \in ListenNames
        /\ i[1] \notin ListenNames => C18_Outcome(i)

\* C18: a catalogued file is valid exactly when its source or destination
\* endpoint is the formatted listen address and port; every other catalogued
\* file is in invalid_server/ once the cycle is past that move, idle or not,
\* before the pairing, and is never paired, classified or forwarded.
C18_InvalidServerMoved == pc \notin {"scan", "mv_server"} => C18_Classified

\* the same of the cycles in which no rename has raised
C18_WhenNoRenameFails == pc \notin {"scan", "mv_server", "crashed"} => C18_Classified

-----------------------------------------------------------------------------
(* C19 *)

\* forward() has ended: by a return or by an exception
ForwardOver == fwd.st \in {"noconn", "done", "raised"}

\* C19: every started replay ends, whatever the shadow server does.
C19_ReplayTerminates == <>ForwardOver

\* a replay that does not end receives data again and again
C19_EndsOrReceivesForever == <>ForwardOver \/ []<><<SockRecv>>_vars

-----------------------------------------------------------------------------
(* C20 *)

PairOutcomes == {"forward", "invalid", "invalid_url"}

\* C20: when a scan cycle is over, by its return or by a failure between two
\* renames, the two files of every ready pair are in the same place: it is
\* never the case that one was moved and the other is still in the working
\* directory or in another directory.
C20_SharedFate ==
    CycleOver => \A p \in ReadyPairs : file[p[1]].dir = file[p[2]].dir

\* when process() has returned, the two files of every ready pair are both
\* in forward/, both in invalid/ or both in invalid_url/
C20_WhenCycleReturns ==
    CycleReturned =>
        \A p \in ReadyPairs :
            file[p[1]].dir = file[p[2]].dir /\ file[p[1]].dir \in PairOutcomes

====
